---- MODULE Spec2Model ----
(***************************************************************************)
(* Model of the interactive chessboard of src/README.py: the coordinate    *)
(* mapper (model_to_display, display_to_model, square_at_pixel), the       *)
(* helpers over the rules engine (legal_moves_from, move_for,              *)
(* needs_promotion) and the event loop of main() with its drag and         *)
(* promotion state.                                                        *)
(*                                                                         *)
(* The rules engine is the external python-chess library.  It is modelled  *)
(* by its rules for kings, pawns and the four promotion pieces (moves,     *)
(* captures, promotion, check), with a move stack for push / pop / reset.  *)
(* Castling and en passant are left out: no reachable position of the      *)
(* model has a rook on its home square or a pawn on its own second rank.   *)
(* chess.Board() sets up the 32-piece array, from which a promotion is     *)
(* nine plies away; the model starts the engine from a king-and-pawn       *)
(* ending instead (StartPieces), so that promotions, checks and undone     *)
(* moves all occur within MaxPly plies.                                    *)
(***************************************************************************)
EXTENDS Integers, Sequences, FiniteSets

\* ---------------------------------------------------------------- bounds

\* The longest move history explored: a handler that would push one more
\* move is not taken.
MaxPly == 2

\* ---------------------------------------------------------------- config

BOARD_SIZE == 8
SQUARE_SIZE == 72
OUTER_MARGIN == 40
LABEL_GAP == 28

BOARD_PIX == BOARD_SIZE * SQUARE_SIZE
WIN_W == OUTER_MARGIN * 2 + BOARD_PIX
WIN_H == OUTER_MARGIN * 2 + LABEL_GAP + BOARD_PIX

\* ------------------------------------------------- rules engine (chess.*)

WHITE == TRUE
BLACK == FALSE

PAWN == "PAWN"
KNIGHT == "KNIGHT"
BISHOP == "BISHOP"
ROOK == "ROOK"
QUEEN == "QUEEN"
KING == "KING"

\* Python's None, one per type it stands in for.
NoneType == "None"
NoSquare == 0 - 1
NoPiece == [color |-> FALSE, piece_type |-> NoneType]
NoMove == [from_square |-> NoSquare, to_square |-> NoSquare, promotion |-> NoneType]
NoGrid == <<NoSquare, NoSquare>>

SQUARES == 0 .. 63

square_file(sq) == sq % 8
square_rank(sq) == sq \div 8
square(file, rank) == rank * 8 + file

Abs(n) == IF n < 0 THEN 0 - n ELSE n
Sgn(n) == IF n < 0 THEN 0 - 1 ELSE IF n > 0 THEN 1 ELSE 0
Max(a, b) == IF a < b THEN b ELSE a

\* The squares strictly between s and t on their common line.
between(s, t) ==
  LET df == square_file(t) - square_file(s)
      dr == square_rank(t) - square_rank(s)
      n == Max(Abs(df), Abs(dr))
  IN  { square(square_file(s) + k * Sgn(df), square_rank(s) + k * Sgn(dr)) :
          k \in 1 .. (n - 1) }

\* A placement maps the occupied squares to their pieces.
at(pieces, sq) == IF sq \in DOMAIN pieces THEN pieces[sq] ELSE NoPiece

clear(pieces, s, t) == \A x \in between(s, t) : x \notin DOMAIN pieces

\* The piece on s attacks t.
attacks(pieces, s, t) ==
  LET p == pieces[s]
      df == square_file(t) - square_file(s)
      dr == square_rank(t) - square_rank(s)
      diagonal == Abs(df) = Abs(dr) /\ df # 0
      straight == (df = 0) # (dr = 0)
  IN  CASE p.piece_type = PAWN ->
             Abs(df) = 1 /\ dr = (IF p.color = WHITE THEN 1 ELSE 0 - 1)
        [] p.piece_type = KNIGHT -> {Abs(df), Abs(dr)} = {1, 2}
        [] p.piece_type = KING -> Max(Abs(df), Abs(dr)) = 1
        [] p.piece_type = BISHOP -> diagonal /\ clear(pieces, s, t)
        [] p.piece_type = ROOK -> straight /\ clear(pieces, s, t)
        [] p.piece_type = QUEEN -> (diagonal \/ straight) /\ clear(pieces, s, t)
        [] OTHER -> FALSE

occupied_by(pieces, color) == { s \in DOMAIN pieces : pieces[s].color = color }

is_attacked_by(pieces, color, sq) ==
  \E s \in occupied_by(pieces, color) : attacks(pieces, s, sq)

\* board.king(color): the king's square, or None.
king(pieces, color) ==
  LET ks == { s \in DOMAIN pieces : pieces[s] = [color |-> color, piece_type |-> KING] }
  IN  IF ks = {} THEN NoSquare ELSE CHOOSE s \in ks : TRUE

\* The squares the pawn on s may move to.
pawn_targets(pieces, s) ==
  LET c == pieces[s].color
      dir == IF c = WHITE THEN 1 ELSE 0 - 1
      home == IF c = WHITE THEN 1 ELSE 6
      f == square_file(s)
      r == square_rank(s)
      one == square(f, r + dir)
      two == square(f, r + 2 * dir)
      step == IF r + dir \in 0 .. 7 /\ one \notin DOMAIN pieces THEN {one} ELSE {}
      double == IF r = home /\ step # {} /\ two \notin DOMAIN pieces THEN {two} ELSE {}
      takes == { t \in occupied_by(pieces, ~c) : attacks(pieces, s, t) }
  IN  step \cup double \cup takes

PROMOTION_PIECES == {QUEEN, ROOK, BISHOP, KNIGHT}

Move(src, dst, promotion) ==
  [from_square |-> src, to_square |-> dst, promotion |-> promotion]

\* The moves of the piece on s that obey its way of moving.
pseudo_legal_from(pieces, s) ==
  IF pieces[s].piece_type = PAWN
  THEN UNION { IF square_rank(t) \in {0, 7}
               THEN { Move(s, t, k) : k \in PROMOTION_PIECES }
               ELSE { Move(s, t, NoneType) } : t \in pawn_targets(pieces, s) }
  ELSE { Move(s, t, NoneType) :
           t \in { x \in SQUARES : /\ x \notin occupied_by(pieces, pieces[s].color)
                                   /\ attacks(pieces, s, x) } }

\* The placement after move m.
moved(pieces, m) ==
  [s \in (DOMAIN pieces \ {m.from_square}) \cup {m.to_square} |->
     IF s # m.to_square THEN pieces[s]
     ELSE IF m.promotion # NoneType
          THEN [color |-> pieces[m.from_square].color, piece_type |-> m.promotion]
          ELSE pieces[m.from_square]]

in_check(pieces, color) ==
  LET k == king(pieces, color)
  IN  k # NoSquare /\ is_attacked_by(pieces, ~color, k)

\* The legal moves of the side to move: those that obey the pieces' ways of
\* moving and do not leave its own king attacked.
generate_legal_moves(pieces, turn) ==
  { m \in UNION { pseudo_legal_from(pieces, s) : s \in occupied_by(pieces, turn) } :
      ~in_check(moved(pieces, m), turn) }

\* A chess.Board: the placement, the side to move, the moves made, the
\* positions they were made in, and the legal moves of the position.
BoardOf(pieces, turn, move_stack, stack) ==
  [pieces |-> pieces, turn |-> turn, move_stack |-> move_stack, stack |-> stack,
   legal_moves |-> generate_legal_moves(pieces, turn)]

\* board.legal_moves
legal_moves(b) == b.legal_moves

\* board.is_check()
is_check(b) == in_check(b.pieces, b.turn)

\* board.piece_at(sq)
piece_at(b, sq) == at(b.pieces, sq)

\* board.push(m)
push(b, m) ==
  BoardOf(moved(b.pieces, m), ~b.turn, Append(b.move_stack, m),
          Append(b.stack, [pieces |-> b.pieces, turn |-> b.turn]))

\* board.pop()
pop(b) ==
  LET n == Len(b.move_stack)
  IN  BoardOf(b.stack[n].pieces, b.stack[n].turn, SubSeq(b.move_stack, 1, n - 1),
              SubSeq(b.stack, 1, n - 1))

\* board.peek()
peek(b) == b.move_stack[Len(b.move_stack)]

\* The engine's starting placement: white Ka1 and pawn a6, black Kh8 and
\* pawn h2.
StartPieces ==
  [s \in {square(0, 0), square(0, 5), square(7, 7), square(7, 1)} |->
     IF s = square(0, 0) THEN [color |-> WHITE, piece_type |-> KING]
     ELSE IF s = square(0, 5) THEN [color |-> WHITE, piece_type |-> PAWN]
     ELSE IF s = square(7, 7) THEN [color |-> BLACK, piece_type |-> KING]
     ELSE [color |-> BLACK, piece_type |-> PAWN]]

\* chess.Board(), and the board after board.reset()
Board == BoardOf(StartPieces, WHITE, <<>>, <<>>)

\* ------------------------------------------------------ coordinate mapper

\* model_to_display with only the rank axis inverted on the flipped board.
model_to_display_rank_only(sq, f) ==
  IF ~f THEN <<7 - square_rank(sq), square_file(sq)>>
  ELSE <<square_rank(sq), square_file(sq)>>

\* python-chess square -> (row, col) on the screen grid
model_to_display(sq, f) ==
  LET file == square_file(sq)
      rank == square_rank(sq)
  IN  IF ~f THEN <<7 - rank, file>> ELSE <<rank, 7 - file>>

\* display_to_model with only the rank axis inverted on the flipped board.
display_to_model_rank_only(r, c, f) ==
  IF ~(0 <= r /\ r < 8 /\ 0 <= c /\ c < 8)
  THEN NoSquare
  ELSE IF ~f THEN square(c, 7 - r) ELSE square(c, r)

\* screen grid (row, col) -> python-chess square, or None
display_to_model(r, c, f) ==
  IF ~(0 <= r /\ r < 8 /\ 0 <= c /\ c < 8)
  THEN NoSquare
  ELSE IF ~f THEN square(c, 7 - r) ELSE square(7 - c, r)

\* square_at_pixel that rounds the offset to the nearest cell.
square_at_pixel_rounding(pos) ==
  LET bx == pos[1] - OUTER_MARGIN
      by == pos[2] - OUTER_MARGIN
  IN  IF 0 <= bx /\ bx < BOARD_PIX /\ 0 <= by /\ by < BOARD_PIX
      THEN <<(by + SQUARE_SIZE \div 2) \div SQUARE_SIZE,
             (bx + SQUARE_SIZE \div 2) \div SQUARE_SIZE>>
      ELSE NoGrid

\* mouse pixel -> (row, col) or None
square_at_pixel(pos) ==
  LET bx == pos[1] - OUTER_MARGIN
      by == pos[2] - OUTER_MARGIN
  IN  IF 0 <= bx /\ bx < BOARD_PIX /\ 0 <= by /\ by < BOARD_PIX
      THEN <<by \div SQUARE_SIZE, bx \div SQUARE_SIZE>>
      ELSE NoGrid

\* The pixel at the centre of grid cell (r, c), where a piece's glyph is drawn.
cell_centre(r, c) ==
  <<OUTER_MARGIN + c * SQUARE_SIZE + SQUARE_SIZE \div 2,
    OUTER_MARGIN + r * SQUARE_SIZE + SQUARE_SIZE \div 2>>

\* ------------------------------------------------- helpers over the engine

\* legal_moves_from that does not look at the source square.
legal_moves_from_anywhere(b, src) == legal_moves(b)

legal_moves_from(b, src) == { m \in legal_moves(b) : m.from_square = src }

\* move_for that does not compare the promotion.
move_for_any_promotion(b, src, dst, promotion) ==
  LET ms == { m \in legal_moves(b) : m.from_square = src /\ m.to_square = dst }
  IN  IF ms = {} THEN NoMove ELSE CHOOSE m \in ms : TRUE

\* move_for that does not compare the destination.
move_for_any_target(b, src, dst, promotion) ==
  LET ms == { m \in legal_moves(b) : m.from_square = src /\ m.promotion = promotion }
  IN  IF ms = {} THEN NoMove ELSE CHOOSE m \in ms : TRUE

\* move_for that builds the move without looking it up in the legal moves.
move_for_unchecked(b, src, dst, promotion) == Move(src, dst, promotion)

\* m.uci(): the two squares and the promotion piece's letter, if any.
uci(m) ==
  <<m.from_square, m.to_square,
    CASE m.promotion = QUEEN -> "q" [] m.promotion = ROOK -> "r"
      [] m.promotion = BISHOP -> "b" [] m.promotion = KNIGHT -> "n"
      [] OTHER -> "">>

\* chess.Move.from_uci(u)
from_uci(u) ==
  Move(u[1], u[2],
       CASE u[3] = "q" -> QUEEN [] u[3] = "r" -> ROOK
         [] u[3] = "b" -> BISHOP [] u[3] = "n" -> KNIGHT
         [] OTHER -> NoneType)

\* The legal move src->dst with the given promotion, or None.
move_for(b, src, dst, promotion) ==
  LET ms == { m \in legal_moves(b) :
                /\ m.from_square = src /\ m.to_square = dst
                /\ \/ from_uci(uci(m)).promotion = promotion
                   \/ m.promotion = promotion }
  IN  IF ms = {} THEN NoMove ELSE CHOOSE m \in ms : TRUE

\* needs_promotion that knows only the eighth rank.
needs_promotion_last_rank_only(b, src, dst) ==
  at(b.pieces, src).piece_type = PAWN /\ square_rank(dst) = 7

needs_promotion(b, src, dst) ==
  LET piece == piece_at(b, src)
  IN  IF piece = NoPiece \/ piece.piece_type # PAWN
      THEN FALSE
      ELSE square_rank(dst) = 0 \/ square_rank(dst) = 7

\* ------------------------------------------------------ promotion overlay

Rect(left, top, w, h) == [left |-> left, top |-> top, w |-> w, h |-> h]

collidepoint(rect, p) ==
  /\ rect.left <= p[1] /\ p[1] < rect.left + rect.w
  /\ rect.top <= p[2] /\ p[2] < rect.top + rect.h

\* The four (rect, piece_type) boxes draw_promotion_overlay returns.
draw_promotion_overlay ==
  LET panel_w == SQUARE_SIZE * 4 + 48
      panel_h == SQUARE_SIZE + 64
      panel == Rect((WIN_W - panel_w) \div 2, (WIN_H - panel_h) \div 2, panel_w, panel_h)
      pieces == <<QUEEN, ROOK, BISHOP, KNIGHT>>
  IN  [i \in 1 .. 4 |->
         [rect |-> Rect(panel.left + 24 + (i - 1) * (SQUARE_SIZE + 16), panel.top + 36,
                        SQUARE_SIZE, SQUARE_SIZE),
          ptype |-> pieces[i]]]

\* clicked_box that takes a click anywhere for a click on the queen's box.
clicked_box_anywhere(mouse) == QUEEN

\* The piece kind of the first box holding the mouse, or None.
clicked_box(mouse) ==
  LET boxes == draw_promotion_overlay
      hit == { i \in 1 .. 4 : collidepoint(boxes[i].rect, mouse) }
  IN  IF hit = {} THEN NoneType
      ELSE boxes[CHOOSE i \in hit : \A j \in hit : i <= j].ptype

\* ------------------------------------------------------------- the state

VARIABLES
  board,            \* the chess.Board
  flipped,          \* orientation flag
  show_hints,       \* hint display flag
  dragging,         \* the drag: active, sq, pos, moves
  promotion_state,  \* the pending promotion: pending, src, dst
  running,          \* the loop flag
  last_move,        \* the last move as read at the top of the frame
  check_sq,         \* the checked king's square as read at the top of the frame
  pc,               \* "events" inside the loop, "done" after pygame.quit()
  probe             \* the argument and results of a coordinate-mapper call

vars == <<board, flipped, show_hints, dragging, promotion_state, running,
          last_move, check_sq, pc, probe>>

NoDrag == [active |-> FALSE, sq |-> NoSquare, pos |-> <<0, 0>>, moves |-> {}]
NoPromotion == [pending |-> FALSE, src |-> NoSquare, dst |-> NoSquare]
NoProbe == [op |-> "none", sq |-> NoSquare, flipped |-> FALSE, cell |-> NoGrid,
            back |-> NoSquare, pos |-> <<0, 0>>]

Init ==
  /\ board = Board
  /\ flipped = FALSE
  /\ show_hints = TRUE
  /\ dragging = NoDrag
  /\ promotion_state = NoPromotion
  /\ running = TRUE
  /\ last_move = NoMove
  /\ check_sq = NoSquare
  /\ pc = "events"
  /\ probe = NoProbe

\* ---------------------------------------------------------- input samples

K_ESCAPE == "K_ESCAPE"
K_f == "K_f"
K_u == "K_u"
K_r == "K_r"
K_s == "K_s"
K_h == "K_h"
K_q == "K_q"
K_b == "K_b"
K_n == "K_n"
K_a == "K_a"

\* The keys pressed: every key the loop names, and K_a for any other key.
Keys == {K_ESCAPE, K_f, K_u, K_r, K_s, K_h, K_q, K_b, K_n, K_a}

\* A pixel in the window's margin, outside the board.
Outside == <<OUTER_MARGIN \div 2, OUTER_MARGIN \div 2>>

\* The squares pointed at, where the pieces of the ending stand and first go:
\* a1, a2, b1 and h8, h7, g8 (the kings), a6, a7, a8 and h2, h1 (the pawns).
SampledSquares ==
  {square(0, 0), square(0, 1), square(1, 0),
   square(7, 7), square(7, 6), square(6, 7),
   square(0, 5), square(0, 6), square(0, 7), square(7, 1), square(7, 0)}

\* The pixels clicked and released: the centres of the cells that show the
\* sampled squares in either orientation, the centres of cells 2..6 of row 4
\* (which lie in the four promotion boxes and, for cell 5, in the gap between
\* two of them) and a pixel outside the board.
Pointer ==
  { cell_centre(model_to_display(s, f)[1], model_to_display(s, f)[2]) :
      s \in SampledSquares, f \in BOOLEAN }
  \cup { cell_centre(4, c) : c \in 2 .. 6 }
  \cup {Outside}

\* The pixels the pointer is moved to.
MotionPointer == {Outside}

\* The mouse buttons pressed and released: the left button anywhere, the right
\* button at one place.
MouseInputs == { <<1, pos>> : pos \in Pointer } \cup {<<3, Outside>>}

\* ------------------------------------------------------- the event handlers

\* One action per event type of the loop "for event in pygame.event.get()".
\* The batches explored end with the event that clears running: no handler
\* reads running, so the events that could follow it in its batch reach no
\* other board, drag or promotion state.

\* pygame.QUIT
Quit ==
  /\ pc = "events" /\ running
  /\ running' = FALSE
  /\ UNCHANGED <<board, flipped, show_hints, dragging, promotion_state,
                 last_move, check_sq, pc, probe>>

\* The hotkeys of the promotion dialog.
key_map == [k \in {K_q, K_r, K_b, K_n} |->
              CASE k = K_q -> QUEEN [] k = K_r -> ROOK [] k = K_b -> BISHOP
                [] k = K_n -> KNIGHT]

\* The KEYDOWN chain with the u key taken for the r key.
key_branch_u_resets(key, pending) ==
  IF key = K_ESCAPE THEN "quit"
  ELSE IF key = K_f THEN "flip"
  ELSE IF key = K_u \/ key = K_r THEN "reset"
  ELSE IF key = K_s THEN "screenshot"
  ELSE IF key = K_h THEN "hints"
  ELSE IF pending /\ key \in DOMAIN key_map THEN "promote"
  ELSE "none"

\* The KEYDOWN chain with the h key taken for the f key.
key_branch_h_flips(key, pending) ==
  IF key = K_ESCAPE THEN "quit"
  ELSE IF key = K_f \/ key = K_h THEN "flip"
  ELSE IF key = K_u THEN "undo"
  ELSE IF key = K_r THEN "reset"
  ELSE IF key = K_s THEN "screenshot"
  ELSE IF pending /\ key \in DOMAIN key_map THEN "promote"
  ELSE "none"

\* The branch of the KEYDOWN chain taken for key.
key_branch(key, pending) ==
  IF key = K_ESCAPE THEN "quit"
  ELSE IF key = K_f THEN "flip"
  ELSE IF key = K_u THEN "undo"
  ELSE IF key = K_r THEN "reset"
  ELSE IF key = K_s THEN "screenshot"
  ELSE IF key = K_h THEN "hints"
  ELSE IF pending /\ key \in DOMAIN key_map THEN "promote"
  ELSE "none"

\* pygame.KEYDOWN
KeyDown(key) ==
  LET branch == key_branch(key, promotion_state.pending)
      m == move_for(board, promotion_state.src, promotion_state.dst, key_map[key])
      pushes == branch = "promote" /\ m # NoMove
  IN  /\ pc = "events" /\ running
      /\ UNCHANGED <<pc, dragging, last_move, check_sq, probe>>
      /\ running' = IF branch = "quit" THEN FALSE ELSE running
      /\ flipped' = IF branch = "flip" THEN ~flipped ELSE flipped
      /\ show_hints' = IF branch = "hints" THEN ~show_hints ELSE show_hints
      /\ promotion_state' = IF branch = "promote" THEN NoPromotion ELSE promotion_state
      /\ pushes => Len(board.move_stack) < MaxPly
      /\ board' = IF branch = "undo"
                  THEN (IF board.move_stack # <<>> THEN pop(board) ELSE board)
                  ELSE IF branch = "reset" THEN Board
                  ELSE IF pushes THEN push(board, m)
                  ELSE board

\* The drag a left pointer-down at pos starts, or the drag as it is.
picked_up(pos) ==
  LET grid == square_at_pixel(pos)
      sq == display_to_model(grid[1], grid[2], flipped)
  IN  IF grid # NoGrid /\ sq # NoSquare
         /\ piece_at(board, sq) # NoPiece /\ piece_at(board, sq).color = board.turn
      THEN [active |-> TRUE, sq |-> sq, pos |-> pos, moves |-> legal_moves_from(board, sq)]
      ELSE dragging

\* pygame.MOUSEBUTTONDOWN while no promotion is pending (or of another button)
MouseButtonDown(button, pos) ==
  /\ pc = "events" /\ running
  /\ ~(button = 1 /\ promotion_state.pending)
  /\ UNCHANGED <<flipped, show_hints, running, pc, promotion_state, board,
                 last_move, check_sq, probe>>
  /\ dragging' = IF button = 1 THEN picked_up(pos) ELSE dragging

\* pygame.MOUSEMOTION
MouseMotion(pos) ==
  /\ pc = "events" /\ running
  /\ UNCHANGED <<flipped, show_hints, running, pc, promotion_state, board,
                 last_move, check_sq, probe>>
  /\ dragging' = IF dragging.active THEN [dragging EXCEPT !.pos = pos] ELSE dragging

\* Some promoting move src->dst is legal.
possible(b, src, dst) ==
  \E m \in legal_moves(b) :
     m.from_square = src /\ m.to_square = dst /\ m.promotion # NoneType

\* The square a release at pos resolves to, or None.
release_square(pos) ==
  LET grid == square_at_pixel(pos)
  IN  IF grid # NoGrid /\ dragging.sq # NoSquare
      THEN display_to_model(grid[1], grid[2], flipped)
      ELSE NoSquare

\* The move a release of the drag at pos pushes, or None.
release_move(pos) ==
  LET dst == release_square(pos)
  IN  IF dst # NoSquare /\ ~needs_promotion(board, dragging.sq, dst)
      THEN move_for(board, dragging.sq, dst, NoneType)
      ELSE NoMove

\* The promotion state after a release of the drag at pos.
release_promotion(pos) ==
  LET dst == release_square(pos)
  IN  IF dst # NoSquare /\ needs_promotion(board, dragging.sq, dst)
         /\ possible(board, dragging.sq, dst)
      THEN [pending |-> TRUE, src |-> dragging.sq, dst |-> dst]
      ELSE promotion_state

\* The drag left as it is by a release.
release_drag_kept == dragging

\* The drag after a release ("reset drag").
release_drag == NoDrag

\* pygame.MOUSEBUTTONUP
MouseButtonUp(button, pos) ==
  /\ pc = "events" /\ running
  /\ UNCHANGED <<flipped, show_hints, running, pc, last_move, check_sq, probe>>
  /\ IF button = 1 /\ dragging.active /\ ~promotion_state.pending
     THEN LET m == release_move(pos)
          IN  /\ dragging' = release_drag
              /\ promotion_state' = release_promotion(pos)
              /\ m # NoMove => Len(board.move_stack) < MaxPly
              /\ board' = IF m # NoMove THEN push(board, m) ELSE board
     ELSE UNCHANGED <<dragging, promotion_state, board>>

\* pygame.MOUSEBUTTONDOWN of the left button while a promotion is pending;
\* mouse is what pygame.mouse.get_pos() returns.
PromotionClick(mouse) ==
  LET ptype == clicked_box(mouse)
      m == move_for(board, promotion_state.src, promotion_state.dst, ptype)
      pushes == ptype # NoneType /\ m # NoMove
  IN  /\ pc = "events" /\ running
      /\ promotion_state.pending
      /\ UNCHANGED <<flipped, show_hints, running, pc, dragging, last_move, check_sq,
                     probe>>
      /\ promotion_state' = IF ptype # NoneType THEN NoPromotion ELSE promotion_state
      /\ pushes => Len(board.move_stack) < MaxPly
      /\ board' = IF pushes THEN push(board, m) ELSE board

\* The end of a frame (render, flip, loop test) and the top of the next
\* (last_move and check_sq are read from the board), or the end of the loop.
Frame ==
  /\ pc = "events"
  /\ IF running
     THEN /\ last_move' = IF board.move_stack # <<>> THEN peek(board) ELSE NoMove
          /\ check_sq' = IF is_check(board) THEN king(board.pieces, board.turn)
                         ELSE NoSquare
          /\ pc' = "events"
     ELSE /\ pc' = "done"
          /\ UNCHANGED <<last_move, check_sq>>
  /\ UNCHANGED <<board, flipped, show_hints, dragging, promotion_state, running, probe>>

Next ==
  \/ Quit
  \/ \E key \in Keys : KeyDown(key)
  \/ \E i \in MouseInputs : MouseButtonDown(i[1], i[2])
  \/ \E pos \in MotionPointer : MouseMotion(pos)
  \/ \E i \in MouseInputs : MouseButtonUp(i[1], i[2])
  \/ \E mouse \in Pointer : PromotionClick(mouse)
  \/ Frame

Spec == Init /\ [][Next]_vars

\* ------------------------------------------------------------ the rendering

\* What each frame draws is a function of the state the event batch leaves.

\* draw_move_hints that ignores the orientation.
draw_move_hints_unflipped(b, src, legal_from_src, f) ==
  { [cell |-> model_to_display(m.to_square, FALSE),
     shape |-> IF piece_at(b, m.to_square) = NoPiece THEN "dot" ELSE "ring"] :
      m \in legal_from_src }

\* The indicators draw_move_hints draws: at the cell of each move's target, a
\* dot on an empty square and a ring on a capture.
draw_move_hints(b, src, legal_from_src, f) ==
  { [cell |-> model_to_display(m.to_square, f),
     shape |-> IF piece_at(b, m.to_square) = NoPiece THEN "dot" ELSE "ring"] :
      m \in legal_from_src }

\* The move hints of the frame.
move_hints ==
  IF show_hints /\ dragging.active /\ dragging.moves # {}
  THEN draw_move_hints(board, dragging.sq, dragging.moves, flipped)
  ELSE {}

\* ------------------------------------------- the coordinate mapper, called

\* A square and an orientation, before model_to_display is applied.
MapInit ==
  /\ board = Board
  /\ flipped = FALSE
  /\ show_hints = TRUE
  /\ dragging = NoDrag
  /\ promotion_state = NoPromotion
  /\ running = TRUE
  /\ last_move = NoMove
  /\ check_sq = NoSquare
  /\ pc = "events"
  /\ probe \in { [op |-> "input", sq |-> s, flipped |-> f, cell |-> NoGrid,
                  back |-> NoSquare, pos |-> <<0, 0>>] : s \in SQUARES, f \in BOOLEAN }

\* r, c = model_to_display(sq, flipped)
ToDisplay ==
  /\ probe.op = "input"
  /\ probe' = [probe EXCEPT !.op = "display",
                            !.cell = model_to_display(probe.sq, probe.flipped)]
  /\ UNCHANGED <<board, flipped, show_hints, dragging, promotion_state, running,
                 last_move, check_sq, pc>>

\* sq = display_to_model(r, c, flipped)
ToModel ==
  /\ probe.op = "display"
  /\ probe' = [probe EXCEPT !.op = "model",
                            !.back = display_to_model(probe.cell[1], probe.cell[2],
                                                      probe.flipped)]
  /\ UNCHANGED <<board, flipped, show_hints, dragging, promotion_state, running,
                 last_move, check_sq, pc>>

MapNext == ToDisplay \/ ToModel

MapSpec == MapInit /\ [][MapNext]_vars

\* ---------------------------------------------- square_at_pixel, called

\* The coordinates probed on each axis: the window's first and last pixel, the
\* pixel before it, the pixels on either side of both board edges, and the
\* first, a middle and the last pixel of each of the eight cells.
PixelCoords ==
  {0 - 1, 0, OUTER_MARGIN - 1, OUTER_MARGIN + BOARD_PIX, OUTER_MARGIN + BOARD_PIX + 1,
   WIN_W - 1}
  \cup { OUTER_MARGIN + k * SQUARE_SIZE + d :
           k \in 0 .. 7, d \in {0, SQUARE_SIZE \div 2, SQUARE_SIZE - 1} }

\* A pixel, before square_at_pixel is applied.
PixelInit ==
  /\ board = Board
  /\ flipped = FALSE
  /\ show_hints = TRUE
  /\ dragging = NoDrag
  /\ promotion_state = NoPromotion
  /\ running = TRUE
  /\ last_move = NoMove
  /\ check_sq = NoSquare
  /\ pc = "events"
  /\ probe \in { [NoProbe EXCEPT !.op = "pixel", !.pos = <<x, y>>] :
                  x \in PixelCoords, y \in PixelCoords }

\* grid = square_at_pixel(pos)
ToGrid ==
  /\ probe.op = "pixel"
  /\ probe' = [probe EXCEPT !.op = "grid", !.cell = square_at_pixel(probe.pos)]
  /\ UNCHANGED <<board, flipped, show_hints, dragging, promotion_state, running,
                 last_move, check_sq, pc>>

PixelNext == ToGrid

PixelSpec == PixelInit /\ [][PixelNext]_vars

\* ------------------------------------------------------------- the claims

\* The three interaction states.
Idle == dragging = NoDrag /\ promotion_state = NoPromotion
Dragging ==
  /\ dragging.active /\ dragging.sq \in SQUARES
  /\ promotion_state = NoPromotion
AwaitingPromotionChoice ==
  /\ promotion_state.pending
  /\ promotion_state.src \in SQUARES /\ promotion_state.dst \in SQUARES
  /\ dragging = NoDrag

\* The step changes the state: a handled event that changes nothing meets
\* every step property below.
Changed == vars' # vars

\* The step pushes one move onto the board.
Pushes == Len(board'.move_stack) = Len(board.move_stack) + 1

\* C1: for every square s and either orientation, model_to_display gives a
\* cell inside [0,8)x[0,8) and display_to_model of that cell gives s back,
\* never None.
C1_RoundTrip ==
  probe.op = "model" =>
    /\ probe.cell[1] \in 0 .. 7 /\ probe.cell[2] \in 0 .. 7
    /\ probe.back # NoSquare
    /\ probe.back = probe.sq

\* The round trip of h1 on the flipped board has been made.
C1_Witness == probe.op = "model" /\ probe.flipped /\ probe.sq = square(7, 0)

\* C2: in every reachable state exactly one of Idle, Dragging and
\* AwaitingPromotionChoice holds; a drag and a pending promotion are never
\* both active.
C2_SingleActiveState ==
  /\ ~(dragging.active /\ promotion_state.pending)
  /\ \/ Idle /\ ~Dragging /\ ~AwaitingPromotionChoice
     \/ ~Idle /\ Dragging /\ ~AwaitingPromotionChoice
     \/ ~Idle /\ ~Dragging /\ AwaitingPromotionChoice

\* A drag has ended in a pending promotion.
C2_Witness == AwaitingPromotionChoice /\ board.move_stack # <<>>

\* C3: undo or reset issued while Dragging or AwaitingPromotionChoice forces
\* the state to Idle, and undo with a non-empty history leaves one move fewer.
C3_UndoResetForcesIdle ==
  [][\A key \in {K_u, K_r} :
       (KeyDown(key) /\ (dragging.active \/ promotion_state.pending)) =>
         /\ Idle'
         /\ (key = K_u /\ board.move_stack # <<>>) =>
              Len(board'.move_stack) = Len(board.move_stack) - 1]_vars

\* The step ends a drag the way the pointer-up handler does: only the board,
\* the promotion state and the drag may change, and the drag is reset.  Every
\* MouseButtonUp(1, pos) step of an active drag is such a step.
EndsDrag ==
  /\ dragging.active /\ ~promotion_state.pending
  /\ dragging' = release_drag
  /\ UNCHANGED <<flipped, show_hints, running, pc, last_move, check_sq, probe>>

\* A pointer-up at pos ends the drag of a pawn on a first- or last-rank square
\* to which a promoting move is legal.
PromotingRelease(pos) ==
  /\ dragging.active /\ ~promotion_state.pending
  /\ release_square(pos) # NoSquare
  /\ square_rank(release_square(pos)) \in {0, 7}
  /\ at(board.pieces, dragging.sq).piece_type = PAWN
  /\ \E k \in PROMOTION_PIECES :
        Move(dragging.sq, release_square(pos), k) \in legal_moves(board)
  /\ MouseButtonUp(1, pos)

\* C4: a pointer-up that ends the drag of a pawn on a first- or last-rank
\* square to which a promoting move is legal makes the state
\* AwaitingPromotionChoice{source, dest} and pushes nothing; and while a
\* promotion is pending the only step that pushes a move is a promotion
\* choice, which pushes a promoting move source->dest and ends the wait.
C4_PromotionCompleteness ==
  [][Changed =>
       /\ EndsDrag =>
           \A pos \in Pointer :
             PromotingRelease(pos) =>
               /\ promotion_state' = [pending |-> TRUE, src |-> dragging.sq,
                                      dst |-> release_square(pos)]
               /\ dragging' = NoDrag
               /\ board' = board
       /\ (promotion_state.pending /\ board' # board /\ Pushes) =>
             /\ promotion_state' = NoPromotion
             /\ \E k \in PROMOTION_PIECES :
                   board' = push(board, Move(promotion_state.src,
                                             promotion_state.dst, k))]_vars

\* The black pawn was dragged from h2 to h1 and its promotion is pending.
C4_Witness ==
  /\ promotion_state = [pending |-> TRUE, src |-> square(7, 1), dst |-> square(7, 0)]
  /\ dragging = NoDrag
  /\ Len(board.move_stack) = 1

\* The piece kind each advertised hotkey stands for.
HotkeyKind == [k \in {K_q, K_r, K_b, K_n} |->
                 IF k = K_q THEN QUEEN ELSE IF k = K_r THEN ROOK
                 ELSE IF k = K_b THEN BISHOP ELSE KNIGHT]

\* C5: while a promotion is pending, each of the hotkeys Q, R, B, N submits
\* the promoting move (source, dest, kind) if it is legal, changes the board
\* in no other way, and returns the state to Idle.
C5_PromotionHotkeys ==
  [][\A key \in {K_q, K_r, K_b, K_n} :
       (promotion_state.pending /\ KeyDown(key)) =>
         LET m == Move(promotion_state.src, promotion_state.dst, HotkeyKind[key])
         IN  /\ board' = IF m \in legal_moves(board) THEN push(board, m) ELSE board
             /\ Idle']_vars

\* The pixel clicked in the box of each piece kind: the centres of cells 2,
\* 3, 4 and 6 of row 4.
BoxPixel == [k \in PROMOTION_PIECES |->
               IF k = QUEEN THEN cell_centre(4, 2) ELSE IF k = ROOK THEN cell_centre(4, 3)
               ELSE IF k = BISHOP THEN cell_centre(4, 4) ELSE cell_centre(4, 6)]

\* C6: while a promotion source->dest is pending, a click in the box of a
\* piece kind pushes the move (source, dest, kind) if and only if it is legal
\* in the current position, and in either case the state returns to Idle.
C6_PromotionClick ==
  [][Changed =>
       \A k \in PROMOTION_PIECES :
         (promotion_state.pending /\ PromotionClick(BoxPixel[k])) =>
           LET m == Move(promotion_state.src, promotion_state.dst, k)
           IN  /\ board' = IF m \in legal_moves(board) THEN push(board, m) ELSE board
               /\ Idle']_vars

\* A rook promotion, which only a click chooses, has been pushed.
C6_Witness ==
  /\ Idle
  /\ board.move_stack # <<>>
  /\ peek(board).promotion = ROOK

\* C7: while a promotion is pending some event cancels it: the state returns
\* to Idle, no move is pushed, the board is unchanged and the loop keeps
\* running.
C7_CancelExists ==
  (pc = "events" /\ running /\ promotion_state.pending) =>
    ENABLED (Next /\ Idle' /\ board' = board /\ running' /\ pc' = "events")

\* The drag's cached moves are the legal moves from its source now.
FreshDrag == dragging.active => dragging.moves = legal_moves_from(board, dragging.sq)

\* A pointer-up at pos ends a drag outside the board or on a square that is
\* no legal target.
InvalidRelease(pos) ==
  /\ dragging.active /\ ~promotion_state.pending
  /\ FreshDrag
  /\ \/ square_at_pixel(pos) = NoGrid
     \/ \A m \in dragging.moves :
          m.to_square # display_to_model(square_at_pixel(pos)[1],
                                         square_at_pixel(pos)[2], flipped)
  /\ MouseButtonUp(1, pos)

\* C8: a gesture (pointer-down, pointer-moves, pointer-up) released outside
\* the board or on a square that is no legal target leaves the state Idle and
\* the board unchanged.  Step by step: a step that is a pointer-down or a
\* pointer-move pushes nothing, leaves the promotion state alone and keeps
\* the drag's targets those of the board; a step that is the pointer-up of
\* such a gesture ends Idle with the board unchanged.  (Each conjunct reads
\* "the step has the outcome, or it is no such event".)
C8_IdleInvariant ==
  [][Changed =>
       /\ \/ board' = board /\ promotion_state' = promotion_state /\ FreshDrag'
          \/ \A i \in MouseInputs : ~MouseButtonDown(i[1], i[2])
       /\ \/ /\ board' = board /\ promotion_state' = promotion_state
             /\ FreshDrag => FreshDrag'
          \/ \A pos \in MotionPointer : ~MouseMotion(pos)
       /\ \/ Idle' /\ board' = board
          \/ \A pos \in Pointer : ~InvalidRelease(pos)]_vars

\* After a move was made a piece is held over a pixel outside the board,
\* where the pointer-up that ends the gesture is due.
C8_Witness ==
  /\ dragging.active /\ dragging.pos = Outside
  /\ FreshDrag
  /\ board.move_stack # <<>>
  /\ ENABLED InvalidRelease(Outside)

\* C9: a pointer-up in any Dragging state on a square that is no destination
\* of the moves cached at drag start reverts to Idle and pushes nothing.
C9_ReleaseOffCachedTargets ==
  [][\A pos \in Pointer :
       ( /\ dragging.active /\ ~promotion_state.pending
         /\ \A m \in dragging.moves : m.to_square # release_square(pos)
         /\ MouseButtonUp(1, pos) ) =>
           (Idle' /\ board' = board)]_vars

\* A pointer-up at pos ends the drag on a legal target that needs no
\* promotion.
LegalRelease(pos) ==
  /\ dragging.active /\ ~promotion_state.pending
  /\ Move(dragging.sq, release_square(pos), NoneType) \in legal_moves(board)
  /\ MouseButtonUp(1, pos)

\* C10: every move a step pushes is a legal move of the position it is
\* pushed in, and a pointer-up on a legal target that needs no promotion
\* pushes exactly the move (source, dest, None) and returns to Idle.
C10_OnlyLegalMovesPushed ==
  [][Changed =>
       /\ (board' # board /\ Pushes) =>
             /\ peek(board') \in legal_moves(board)
             /\ board' = push(board, peek(board'))
       /\ EndsDrag =>
           \A pos \in Pointer :
             LegalRelease(pos) =>
               /\ board' = push(board, Move(dragging.sq, release_square(pos), NoneType))
               /\ Idle']_vars

\* Two moves were pushed, the second by a pointer-up.
C10_Witness ==
  /\ Idle
  /\ Len(board.move_stack) = 2
  /\ peek(board).promotion = NoneType

\* C11: a left pointer-down in Idle on a board cell changes nothing when the
\* resolved square is empty or holds a piece of the side not to move;
\* otherwise it makes the drag active with that square as source, the event
\* position as pointer position and exactly the legal moves from that square
\* as cached moves.  The board is unchanged in both cases.
C11_PointerDownInIdle ==
  [][(Changed /\ Idle) =>
       \A pos \in Pointer :
         (square_at_pixel(pos) # NoGrid /\ MouseButtonDown(1, pos)) =>
           LET sq == display_to_model(square_at_pixel(pos)[1],
                                      square_at_pixel(pos)[2], flipped)
               own == /\ at(board.pieces, sq) # NoPiece
                      /\ at(board.pieces, sq).color = board.turn
           IN  /\ board' = board
               /\ IF own
                  THEN /\ dragging' = [active |-> TRUE, sq |-> sq, pos |-> pos,
                                       moves |-> { m \in legal_moves(board) :
                                                     m.from_square = sq }]
                       /\ promotion_state' = promotion_state
                  ELSE UNCHANGED vars]_vars

\* On the flipped board the black king was picked up after white's move.
C11_Witness ==
  /\ Dragging /\ flipped
  /\ dragging.sq = square(7, 7)
  /\ dragging.moves # {}
  /\ board.turn = BLACK /\ Len(board.move_stack) = 1

\* The squares shown at the cells that carry a move hint.
HintSquares == { display_to_model(h.cell[1], h.cell[2], flipped) : h \in move_hints }

\* The step leaves a drag active: it either keeps the drag's source and
\* cached moves, or starts a drag whose cached moves are the board's legal
\* moves from the new source.
SnapshotAtDragStart ==
  dragging'.active =>
    \/ /\ dragging.active
       /\ dragging'.sq = dragging.sq /\ dragging'.moves = dragging.moves
    \/ /\ board' = board
       /\ dragging'.moves = legal_moves_from(board, dragging'.sq)

\* C12: in every frame rendered while Dragging with hints enabled, the squares
\* given a move indicator are exactly the destinations of the moves cached in
\* the drag, and those are the legal moves from the source snapshotted when
\* the drag started; while not Dragging no indicator is drawn.
C12_HintConsistency ==
  /\ [](pc = "events" =>
          HintSquares = IF dragging.active /\ show_hints
                        THEN { m.to_square : m \in dragging.moves }
                        ELSE {})
  /\ [][SnapshotAtDragStart]_vars

\* On the flipped board the hints of the white king's three moves are drawn.
C12_Witness ==
  /\ Dragging /\ flipped /\ show_hints /\ pc = "events"
  /\ dragging.sq = square(0, 0)
  /\ HintSquares = {square(0, 1), square(1, 0), square(1, 1)}

\* C13: the orientation toggle (f) and the hint toggle (h) each invert their
\* own flag and change nothing else: the other flag, the board with its move
\* history, the drag and the pending promotion stay as they are, in whichever
\* interaction state the key is pressed; a flag inverted twice is restored.
C13_TogglesFlipOnlyTheirFlag ==
  [][\A key \in {K_f, K_h} :
       KeyDown(key) =>
         /\ flipped' = IF key = K_f THEN ~flipped ELSE flipped
         /\ show_hints' = IF key = K_h THEN ~show_hints ELSE show_hints
         /\ flipped \in BOOLEAN /\ show_hints \in BOOLEAN
         /\ UNCHANGED <<board, dragging, promotion_state, running,
                        last_move, check_sq, pc>>]_vars

\* Both flags were toggled and a promotion is pending after a move.
C13_Witness ==
  /\ flipped /\ ~show_hints
  /\ AwaitingPromotionChoice
  /\ Len(board.move_stack) = 1

\* The pixel lies in the board rectangle [OUTER_MARGIN, OUTER_MARGIN + 8 *
\* SQUARE_SIZE) on both axes.
InBoard(pos) ==
  /\ OUTER_MARGIN <= pos[1] /\ pos[1] < OUTER_MARGIN + 8 * SQUARE_SIZE
  /\ OUTER_MARGIN <= pos[2] /\ pos[2] < OUTER_MARGIN + 8 * SQUARE_SIZE

\* C14: square_at_pixel returns None exactly for the pixels outside the board
\* rectangle; for a pixel inside it returns the (row, col) in 0..7 x 0..7
\* whose cell holds the pixel, row and col being the floors of the offsets
\* divided by SQUARE_SIZE: row * SQUARE_SIZE <= y - OUTER_MARGIN < (row + 1) *
\* SQUARE_SIZE, and likewise col, so a cell's left and top edge pixels belong
\* to that cell.
C14_SquareAtPixel ==
  probe.op = "grid" =>
    LET x == probe.pos[1] - OUTER_MARGIN
        y == probe.pos[2] - OUTER_MARGIN
        row == probe.cell[1]
        col == probe.cell[2]
    IN  /\ probe.cell = NoGrid <=> ~InBoard(probe.pos)
        /\ InBoard(probe.pos) =>
             /\ row \in 0 .. 7 /\ col \in 0 .. 7
             /\ row * SQUARE_SIZE <= y /\ y < (row + 1) * SQUARE_SIZE
             /\ col * SQUARE_SIZE <= x /\ x < (col + 1) * SQUARE_SIZE

\* The pixel on the left edge and in the last row of pixels of cell (2, 5)
\* was resolved to that cell.
C14_Witness ==
  /\ probe.op = "grid"
  /\ probe.pos = <<OUTER_MARGIN + 5 * SQUARE_SIZE, OUTER_MARGIN + 3 * SQUARE_SIZE - 1>>
  /\ probe.cell = <<2, 5>>

\* The display cell of square sq in orientation f: row 7 - rank and col file
\* on the unflipped board (rank 7 on row 0), both axes inverted on the
\* flipped board.
OrientedCell(sq, f) ==
  IF ~f THEN <<7 - square_rank(sq), square_file(sq)>>
  ELSE <<square_rank(sq), 7 - square_file(sq)>>

\* The square mirrored in both file and rank.
Mirrored(sq) == square(7 - square_file(sq), 7 - square_rank(sq))

\* C15: model_to_display maps (file, rank) to (7 - rank, file) on the
\* unflipped board and to (rank, 7 - file) on the flipped board; a pointer-down
\* that picks up a piece picks the square whose cell, in the current
\* orientation, holds the pointer; and after an orientation toggle a
\* pointer-down at any board cell resolves to the mirror of the square it
\* resolved to before, which is a different square.
C15_OrientationMapping ==
  /\ [](\A sq \in SQUARES : model_to_display(sq, flipped) = OrientedCell(sq, flipped))
  /\ [][Changed =>
          /\ \A pos \in Pointer :
                ( /\ dragging' # dragging
                  /\ square_at_pixel(pos) # NoGrid
                  /\ MouseButtonDown(1, pos) ) =>
                    OrientedCell(dragging'.sq, flipped) = square_at_pixel(pos)
          /\ KeyDown(K_f) =>
                \A r \in 0 .. 7, c \in 0 .. 7 :
                  /\ display_to_model(r, c, flipped') =
                       Mirrored(display_to_model(r, c, flipped))
                  /\ display_to_model(r, c, flipped') #
                       display_to_model(r, c, flipped)]_vars

\* After a toggle the white king a1 was picked up in the top right cell.
C15_Witness ==
  /\ Dragging /\ flipped
  /\ dragging.sq = square(0, 0)
  /\ dragging.pos = cell_centre(0, 7)

\* C16: undo with an empty move history changes nothing; undo with a
\* non-empty history removes exactly the most recent move (the history loses
\* its last entry and the position is the one that move was played in); reset
\* always yields the initial position with an empty history.
C16_UndoAndReset ==
  [][Changed =>
       /\ KeyDown(K_u) =>
            IF board.move_stack = <<>>
            THEN UNCHANGED vars
            ELSE /\ board'.move_stack =
                      SubSeq(board.move_stack, 1, Len(board.move_stack) - 1)
                 /\ push(board', peek(board)) = board
       /\ KeyDown(K_r) =>
            /\ board'.pieces = StartPieces /\ board'.turn = WHITE
            /\ board'.move_stack = <<>>
            /\ board' = Board]_vars

\* The frame showed black's reply as the last move, and the reply was then
\* undone.
C16_Witness ==
  /\ Len(board.move_stack) = 1
  /\ last_move # NoMove /\ last_move # peek(board)
  /\ at(StartPieces, last_move.from_square).color = BLACK
  /\ at(StartPieces, last_move.from_square) # NoPiece

\* The pixel lies in one of the four promotion boxes.
InBox(p) == \E i \in 1 .. 4 : collidepoint(draw_promotion_overlay[i].rect, p)

\* C17: while a promotion is pending, a pointer event that is no click on a
\* promotion box changes nothing: a left pointer-down outside the four boxes,
\* a pointer-down of another button, a pointer-move and a pointer-up start no
\* drag, push no move and leave the pending source and destination as they
\* are.
C17_PendingIgnoresPointer ==
  [][(Changed /\ promotion_state.pending) =>
       /\ \A mouse \in Pointer : ~(~InBox(mouse) /\ PromotionClick(mouse))
       /\ \A i \in MouseInputs : /\ ~MouseButtonDown(i[1], i[2])
                                 /\ ~MouseButtonUp(i[1], i[2])
       /\ \A pos \in MotionPointer : ~MouseMotion(pos)]_vars

\* A promotion is pending on the flipped board, where a click between two
\* boxes and a click on the pawn's square are due.
C17_Witness ==
  /\ AwaitingPromotionChoice /\ flipped /\ pc = "events" /\ running
  /\ ~InBox(cell_centre(4, 5))
  /\ ENABLED PromotionClick(cell_centre(4, 5))
  /\ ENABLED PromotionClick(cell_centre(model_to_display(promotion_state.src, flipped)[1],
                                        model_to_display(promotion_state.src, flipped)[2]))

\* What the frame's draw_board and draw_pieces calls are given: the last move
\* and the check square read at the top of the tick, and the board as the
\* tick's events left it.
drawn_last_move == last_move
drawn_check_sq == check_sq
drawn_board == board

\* C18: in every rendered frame the highlighted last move is the most recent
\* move of the board whose pieces are drawn (none if its history is empty),
\* and the check square is that board's side-to-move king if it is in check
\* and none otherwise, also in the frame rendered after a move, an undo or a
\* reset handled in the same tick.
C18_HighlightsMatchBoard ==
  [][Frame =>
       /\ drawn_last_move = IF drawn_board.move_stack # <<>> THEN peek(drawn_board)
                            ELSE NoMove
       /\ drawn_check_sq = IF is_check(drawn_board)
                           THEN king(drawn_board.pieces, drawn_board.turn)
                           ELSE NoSquare]_vars

\* C19: in every reachable state with an active drag the source square holds
\* a piece of the side to move on the current board, and the cached moves are
\* the current legal moves from the source.
C19_DragNeverStale ==
  dragging.active =>
    /\ piece_at(board, dragging.sq) # NoPiece
    /\ piece_at(board, dragging.sq).color = board.turn
    /\ dragging.moves = legal_moves_from(board, dragging.sq)

\* C20: in every reachable state with a promotion pending the current board
\* has a pawn of the side to move on the pending source and a legal promoting
\* move from the source to the pending destination.
C20_PendingPromotionPossible ==
  promotion_state.pending =>
    /\ piece_at(board, promotion_state.src) = [color |-> board.turn, piece_type |-> PAWN]
    /\ possible(board, promotion_state.src, promotion_state.dst)

====
